---- MODULE Spec2Model ----
(***************************************************************************)
(* The subscription manager's HTTP handlers as a state machine.            *)
(*                                                                         *)
(* Three handlers are modelled: the legacy JSON webhook                    *)
(* initializeRecurringPayment, the form-encoded webhook                    *)
(* initializeRecurringPayment (payment lookup variant) and the             *)
(* initializeSubscription entry point.  Every invocation runs its handler  *)
(* from one await to the next; the steps of different invocations          *)
(* interleave at the awaits, as the promises of a Node process do.         *)
(*                                                                         *)
(* Representation of JavaScript values:                                    *)
(*   - a customer or payment identifier is a natural number; 0 stands for  *)
(*     the absent identifier (undefined, or the empty string of a form);   *)
(*   - a JSON scalar is one of the tags of JsValues;                       *)
(*   - a JSON string field is a record [defined, text], text a sequence of *)
(*     characters;                                                         *)
(*   - an exception is a record [status, detail, message] holding          *)
(*     error.response.status, error.response.data.detail and error.message;*)
(*     0 and "" stand for an absent (falsy) field.                         *)
(***************************************************************************)
EXTENDS Naturals, Sequences, FiniteSets

\* Number of handler invocations in a run.
MaxInv == 1

Inv == 1..MaxInv

----------------------------------------------------------------------------
\* JavaScript helpers

JsValues == {"undefined", "false", "0", "true"}

\* The values JavaScript's ! operator maps to true.
Falsy == {"undefined", "null", "false", "0", ""}

Truthy(v) == v \notin Falsy

Undefined == [defined |-> FALSE, text |-> <<>>]

Str(s) == [defined |-> TRUE, text |-> s]

\* Truthiness of a string-or-undefined field.
TruthyStr(f) == f.defined /\ f.text # <<>>

\* a || b on string fields.
OrElse(a, b) == IF TruthyStr(a) THEN a.text ELSE b

RECURSIVE SplitFirst(_, _)
\* s.split(sep)[0]: the characters before the first separator.
SplitFirst(s, sep) ==
    IF s = <<>> \/ Head(s) = sep THEN <<>>
    ELSE <<Head(s)>> \o SplitFirst(Tail(s), sep)

----------------------------------------------------------------------------
\* Exceptions and the responses built from them

HttpError(st, detail, msg) == [status |-> st, detail |-> detail, message |-> msg]

\* The failures an external call can end with: an HTTP error with a detail,
\* an HTTP error without one, a network error, and a thrown value without
\* response or message.
Errors ==
    { HttpError(404, "Not Found", "Request failed with status code 404"),
      HttpError(503, "", "Request failed with status code 503"),
      HttpError(0, "", "socket hang up"),
      HttpError(0, "", "") }

SyntaxError == HttpError(0, "", "Unexpected token in JSON")

TypeError == HttpError(0, "", "Cannot destructure property of null")

\* Variant: the catch always answers 500, ignoring error.response.status.
ErrorStatusAlways500(error) == 500

\* error.response?.status || 500
ErrorStatus(error) == IF error.status # 0 THEN error.status ELSE 500

\* error.response?.data?.detail || error.message || "Unknown error"
ErrorMessage(error) ==
    IF error.detail # "" THEN error.detail
    ELSE IF error.message # "" THEN error.message
    ELSE "Unknown error"

\* The response of a handler's top-level catch.
ErrorResponse(error) ==
    [status |-> ErrorStatus(error),
     jsonBody |-> [success |-> FALSE, error |-> ErrorMessage(error)]]

BadRequest(msg) == [status |-> 400, body |-> [error |-> msg]]

SuccessResponse == [status |-> 200, jsonBody |-> [success |-> TRUE]]

ReceivedResponse == [status |-> 200, jsonBody |-> [received |-> TRUE]]

----------------------------------------------------------------------------
\* State

VARIABLES
    env,            \* process.env: the Dataverse configuration
    customers,      \* payment provider: customers, the k-th has identifier k
    payments,       \* payment provider: payments, the k-th has identifier k
    subscriptions,  \* payment provider: subscriptions, in creation order
    contacts,       \* record store: the rows created by writeCustomerToDataverse
    subscriptionFlag, \* record store: the activation flag by customer identifier
    pc,             \* per invocation: the await it is suspended at
    handler,        \* per invocation: the handler that serves it
    request,        \* per invocation: the request body
    customerId,     \* per invocation: the local customerId
    payment,        \* per invocation: payment.status of the looked-up payment
    recurringPaymentResponse, \* per invocation: status of the created subscription
    status,         \* per invocation: the local boolean status
    calls,          \* per invocation: the external calls issued, in order
    caught,         \* per invocation: the exceptions that reached the top-level catch
    swallowed,      \* per invocation: the exceptions caught and only logged
    resp            \* per invocation: the responses returned

vars == <<env, customers, payments, subscriptions, contacts, subscriptionFlag,
          pc, handler, request, customerId, payment, recurringPaymentResponse,
          status, calls, caught, swallowed, resp>>

provider == <<customers, payments, subscriptions>>

store == <<contacts, subscriptionFlag>>

locals == <<customerId, payment, recurringPaymentResponse, status, swallowed>>

\* Customer identifiers the record store and the requests range over.
CustomerIds == 0..(MaxInv + 1)

PaymentStatuses == {"open", "paid", "failed", "expired"}

SubscriptionStatuses == {"active", "pending", "canceled"}

\* DATAVERSE_URL as a sequence of its parts; <<>> is the unset variable.
DataverseUrls ==
    { <<>>,
      <<"https://", "org.crm.dynamics.com">>,
      <<"org.crm.dynamics.com">>,
      <<"exa mple">> }

\* TENANT_ID, APPLICATION_ID and CLIENT_SECRET are set or not; DATAVERSE_URL.
Environments ==
    { [tenantId |-> TRUE, appId |-> TRUE, clientSecret |-> TRUE, dataverseUrl |-> u]
        : u \in DataverseUrls }
    \cup { [tenantId |-> TRUE, appId |-> TRUE, clientSecret |-> FALSE,
            dataverseUrl |-> <<"https://", "org.crm.dynamics.com">>] }

\* The provider's state before the first invocation: one customer with a
\* first payment, and one payment made without a customer.
InitialCustomers == << [email |-> <<"a", "@", "x">>, name |-> <<"a">>] >>

InitialPayments ==
    << [customerId |-> 1, amount |-> <<"0", ".", "0", "1">>, sequenceType |-> "first"],
       [customerId |-> 0, amount |-> <<"5">>, sequenceType |-> "oneoff"] >>

Init ==
    /\ env \in Environments
    /\ customers = InitialCustomers
    /\ payments = InitialPayments
    /\ subscriptions = <<>>
    /\ contacts = <<>>
    /\ subscriptionFlag = [c \in CustomerIds |-> "unset"]
    /\ pc = [i \in Inv |-> "idle"]
    /\ handler = [i \in Inv |-> "none"]
    /\ request = [i \in Inv |-> <<>>]
    /\ customerId = [i \in Inv |-> 0]
    /\ payment = [i \in Inv |-> ""]
    /\ recurringPaymentResponse = [i \in Inv |-> ""]
    /\ status = [i \in Inv |-> FALSE]
    /\ calls = [i \in Inv |-> <<>>]
    /\ caught = [i \in Inv |-> <<>>]
    /\ swallowed = [i \in Inv |-> <<>>]
    /\ resp = [i \in Inv |-> <<>>]

----------------------------------------------------------------------------
\* Bookkeeping shared by the handlers

\* A call as issued: no result yet, no error.
Call(name, args) ==
    [call |-> name, args |-> args, result |-> "pending", error |-> HttpError(0, "", "")]

\* The log with its pending (last) call resolved.
Resolved(log) == [log EXCEPT ![Len(log)].result = "ok"]

\* The log with its pending (last) call rejected with error.
Rejected(log, error) ==
    [log EXCEPT ![Len(log)].result = "failed", ![Len(log)].error = error]

\* return: the invocation ends with response r.
Return(i, r) ==
    /\ resp' = [resp EXCEPT ![i] = Append(@, r)]
    /\ pc' = [pc EXCEPT ![i] = "done"]

\* catch (error): the invocation ends with the error response.
Catch(i, error) ==
    /\ caught' = [caught EXCEPT ![i] = Append(@, error)]
    /\ Return(i, ErrorResponse(error))

\* Dispatch of a request to a handler, which runs up to the await of the
\* request body; invocations are numbered in the order their requests arrive.
Dispatch(i, h, body) ==
    /\ pc[i] = "idle"
    /\ \A j \in 1..(i - 1) : pc[j] # "idle"
    /\ handler' = [handler EXCEPT ![i] = h]
    /\ request' = [request EXCEPT ![i] = body]
    /\ pc' = [pc EXCEPT ![i] = "body"]
    /\ UNCHANGED <<env, provider, store, locals, calls, caught, resp>>

----------------------------------------------------------------------------
\* initializeRecurringPayment, legacy JSON variant

\* request.json() of the legacy webhook: a body that is no JSON, the JSON
\* null, or an object with customerId (absent, a known customer, or one the
\* provider does not know at first) and success.
LegacyBodies ==
    { [json |-> k, customerId |-> 0, success |-> "undefined"] : k \in {"invalid", "null"} }
    \cup [json : {"object"}, customerId : 0..2, success : JsValues]

\* Variant: the strict test success === false.
PaymentExplicitlyFalse(success) == success = "false"

\* if (!success)
PaymentNotSuccessful(success) == ~Truthy(success)

\* Variant: every status but "canceled" counts as active.
ActivationFlagNotCanceled(subscriptionStatus) == subscriptionStatus # "canceled"

\* status = recurringPaymentResponse.status === "active"
ActivationFlag(subscriptionStatus) == subscriptionStatus = "active"

\* The subscription the provider stores for a create call.
Subscription(cid, description, st) ==
    [customerId |-> cid, currency |-> "EUR", times |-> 12, interval |-> "1 days",
     startOffsetDays |-> 30, description |-> description, status |-> st]

\* Entry: the handler logs and awaits request.json().
LegacyEnter(i, body) ==
    /\ body \in LegacyBodies
    /\ Dispatch(i, "legacy", body)

\* request.json() settles: the body is checked and customerSubscriptions.create
\* is called.
LegacyStart(i) ==
    /\ handler[i] = "legacy" /\ pc[i] = "body"
    /\ LET body == request[i] IN
       IF body.json = "invalid" THEN
           /\ Catch(i, SyntaxError)
           /\ UNCHANGED <<calls, customerId>>
       ELSE IF body.json = "null" THEN
           /\ Catch(i, TypeError)
           /\ UNCHANGED <<calls, customerId>>
       ELSE IF PaymentNotSuccessful(body.success) THEN
           /\ Return(i, BadRequest("Payment was not successful"))
           /\ UNCHANGED <<calls, caught, customerId>>
       ELSE
           /\ customerId' = [customerId EXCEPT ![i] = body.customerId]
           /\ calls' = [calls EXCEPT ![i] =
                   Append(@, Call("customerSubscriptions.create", <<body.customerId>>))]
           /\ pc' = [pc EXCEPT ![i] = "create"]
           /\ UNCHANGED <<caught, resp>>
    /\ UNCHANGED <<env, provider, store, handler, request, payment,
                   recurringPaymentResponse, status, swallowed>>

\* customerSubscriptions.create resolves with a subscription, which the
\* provider creates for a customer it knows: derive the flag and call
\* updateDataverseSubscription.
LegacyCreateResolved(i, st) ==
    /\ handler[i] = "legacy" /\ pc[i] = "create"
    /\ customerId[i] \in 1..Len(customers)
    /\ subscriptions' = Append(subscriptions, Subscription(customerId[i], "", st))
    /\ recurringPaymentResponse' = [recurringPaymentResponse EXCEPT ![i] = st]
    /\ status' = [status EXCEPT ![i] = ActivationFlag(st)]
    /\ calls' = [calls EXCEPT ![i] =
            Append(Resolved(@),
                   Call("updateDataverseSubscription", <<customerId[i], status'[i]>>))]
    /\ pc' = [pc EXCEPT ![i] = "update"]
    /\ UNCHANGED <<env, customers, payments, store, handler, request, customerId,
                   payment, caught, swallowed, resp>>

\* customerSubscriptions.create rejects.
LegacyCreateRejected(i, error) ==
    /\ handler[i] = "legacy" /\ pc[i] = "create"
    /\ calls' = [calls EXCEPT ![i] = Rejected(@, error)]
    /\ Catch(i, error)
    /\ UNCHANGED <<env, provider, store, handler, request, locals>>

\* The record store after updateDataverseSubscription(cid, flag) succeeded:
\* the activation flag of customer cid is the flag passed.
updateDataverseSubscription(flags, cid, flag) ==
    [flags EXCEPT ![cid] = IF flag THEN "true" ELSE "false"]

\* updateDataverseSubscription resolves: return success.
LegacyUpdateResolved(i) ==
    /\ handler[i] = "legacy" /\ pc[i] = "update"
    /\ subscriptionFlag' = updateDataverseSubscription(subscriptionFlag, customerId[i], status[i])
    /\ calls' = [calls EXCEPT ![i] = Resolved(@)]
    /\ Return(i, SuccessResponse)
    /\ UNCHANGED <<env, provider, contacts, handler, request, locals, caught>>

\* Variant: the record-store failure is dropped, as initializeSubscription
\* does, and success is returned.
LegacyUpdateRejectedSwallowed(i, error) ==
    /\ handler[i] = "legacy" /\ pc[i] = "update"
    /\ calls' = [calls EXCEPT ![i] = Rejected(@, error)]
    /\ swallowed' = [swallowed EXCEPT ![i] = Append(@, error)]
    /\ Return(i, SuccessResponse)
    /\ UNCHANGED <<env, provider, store, handler, request, customerId, payment,
                   recurringPaymentResponse, status, caught>>

\* updateDataverseSubscription rejects: the top-level catch answers.
LegacyUpdateRejected(i, error) ==
    /\ handler[i] = "legacy" /\ pc[i] = "update"
    /\ calls' = [calls EXCEPT ![i] = Rejected(@, error)]
    /\ Catch(i, error)
    /\ UNCHANGED <<env, provider, store, handler, request, locals>>

----------------------------------------------------------------------------
\* initializeRecurringPayment, form-encoded variant

\* request.text(): a body that cannot be read, or the form as its key/value
\* pairs in order; the value is a payment identifier, 0 for the empty value.
FormBodies ==
    { [text |-> "unreadable", pairs |-> <<>>] }
    \cup { [text |-> "read", pairs |-> p] : p \in
            { <<>>,
              << <<"foo", 1>> >>,
              << <<"id", 0>> >>,
              << <<"id", 2>> >>,
              << <<"id", 3>> >>,
              << <<"foo", 1>>, <<"id", 1>>, <<"id", 2>> >> } }

ReadError == HttpError(0, "", "Body is unusable")

\* new URLSearchParams(bodyText).get(key): the first value of the key, or null.
SearchParamsGet(body, key) ==
    IF \E k \in 1..Len(body) : body[k][1] = key
    THEN LET first == CHOOSE k \in 1..Len(body) :
                          /\ body[k][1] = key
                          /\ \A j \in 1..(k - 1) : body[j][1] # key
         IN  [found |-> TRUE, value |-> body[first][2]]
    ELSE [found |-> FALSE, value |-> 0]

\* if (!paymentId): null or the empty string.
MissingPaymentId(paymentId) == ~paymentId.found \/ paymentId.value = 0

\* Variant: an open payment is taken for a successful one.
PaymentNotPaidNorOpen(paymentStatus) == paymentStatus \notin {"paid", "open"}

\* if (payment.status !== "paid")
PaymentNotPaid(paymentStatus) == paymentStatus # "paid"

\* Entry: the handler logs and awaits request.text().
FormEnter(i, body) ==
    /\ body \in FormBodies
    /\ Dispatch(i, "form", body)

\* request.text() settles: the payment identifier is extracted and
\* payments.get is called.
FormStart(i) ==
    /\ handler[i] = "form" /\ pc[i] = "body"
    /\ LET body == request[i]
           paymentId == SearchParamsGet(request[i].pairs, "id") IN
       IF body.text = "unreadable" THEN
           /\ Catch(i, ReadError)
           /\ UNCHANGED calls
       ELSE IF MissingPaymentId(paymentId) THEN
           /\ Return(i, BadRequest("Missing payment ID"))
           /\ UNCHANGED <<calls, caught>>
       ELSE
           /\ calls' = [calls EXCEPT ![i] = Append(@, Call("payments.get", <<paymentId.value>>))]
           /\ pc' = [pc EXCEPT ![i] = "get"]
           /\ UNCHANGED <<resp, caught>>
    /\ UNCHANGED <<env, provider, store, handler, request, locals>>

\* The identifier payments.get was called with.
LookedUp(i) == calls[i][1].args[1]

\* payments.get resolves with the payment, whose status is st.
FormGetResolved(i, st) ==
    /\ handler[i] = "form" /\ pc[i] = "get"
    /\ LookedUp(i) \in 1..Len(payments)
    /\ payment' = [payment EXCEPT ![i] = st]
    /\ IF PaymentNotPaid(st) THEN
           /\ calls' = [calls EXCEPT ![i] = Resolved(@)]
           /\ Return(i, ReceivedResponse)
           /\ UNCHANGED customerId
       ELSE
           /\ customerId' = [customerId EXCEPT ![i] = payments[LookedUp(i)].customerId]
           /\ calls' = [calls EXCEPT ![i] =
                   Append(Resolved(@),
                          Call("customerSubscriptions.create", <<customerId'[i]>>))]
           /\ pc' = [pc EXCEPT ![i] = "create"]
           /\ UNCHANGED resp
    /\ UNCHANGED <<env, provider, store, handler, request, recurringPaymentResponse,
                   status, caught, swallowed>>

\* payments.get rejects (an unknown payment, or a failed request).
FormGetRejected(i, error) ==
    /\ handler[i] = "form" /\ pc[i] = "get"
    /\ calls' = [calls EXCEPT ![i] = Rejected(@, error)]
    /\ Catch(i, error)
    /\ UNCHANGED <<env, provider, store, handler, request, locals>>

FormCreateResolved(i, st) ==
    /\ handler[i] = "form" /\ pc[i] = "create"
    /\ customerId[i] \in 1..Len(customers)
    /\ subscriptions' = Append(subscriptions,
                               Subscription(customerId[i], "Recurring payment", st))
    /\ recurringPaymentResponse' = [recurringPaymentResponse EXCEPT ![i] = st]
    /\ status' = [status EXCEPT ![i] = ActivationFlag(st)]
    /\ calls' = [calls EXCEPT ![i] =
            Append(Resolved(@),
                   Call("updateDataverseSubscription", <<customerId[i], status'[i]>>))]
    /\ pc' = [pc EXCEPT ![i] = "update"]
    /\ UNCHANGED <<env, customers, payments, store, handler, request, customerId,
                   payment, caught, swallowed, resp>>

\* Variant: a rejected create is tried a second time before giving up.
FormCreateRejectedRetry(i, error) ==
    /\ handler[i] = "form" /\ pc[i] = "create"
    /\ IF Len(calls[i]) < 3 THEN
           /\ calls' = [calls EXCEPT ![i] =
                   Append(Rejected(@, error),
                          Call("customerSubscriptions.create", <<customerId[i]>>))]
           /\ UNCHANGED <<pc, caught, resp>>
       ELSE
           /\ calls' = [calls EXCEPT ![i] = Rejected(@, error)]
           /\ Catch(i, error)
    /\ UNCHANGED <<env, provider, store, handler, request, locals>>

FormCreateRejected(i, error) ==
    /\ handler[i] = "form" /\ pc[i] = "create"
    /\ calls' = [calls EXCEPT ![i] = Rejected(@, error)]
    /\ Catch(i, error)
    /\ UNCHANGED <<env, provider, store, handler, request, locals>>

FormUpdateResolved(i) ==
    /\ handler[i] = "form" /\ pc[i] = "update"
    /\ subscriptionFlag' = updateDataverseSubscription(subscriptionFlag, customerId[i], status[i])
    /\ calls' = [calls EXCEPT ![i] = Resolved(@)]
    /\ Return(i, SuccessResponse)
    /\ UNCHANGED <<env, provider, contacts, handler, request, locals, caught>>

FormUpdateRejected(i, error) ==
    /\ handler[i] = "form" /\ pc[i] = "update"
    /\ calls' = [calls EXCEPT ![i] = Rejected(@, error)]
    /\ Catch(i, error)
    /\ UNCHANGED <<env, provider, store, handler, request, locals>>

----------------------------------------------------------------------------
\* writeCustomerToDataverse

MissingEnvironment ==
    HttpError(0, "", "Missing required environment variables for Dataverse connection")

InvalidUrl == HttpError(0, "", "Invalid Dataverse URL")

TokenFailure == HttpError(401, "", "invalid_client")

CreateFailure == HttpError(403, "Forbidden", "Request failed with status code 403")

\* if (!dataverseUrl.startsWith("https://")) dataverseUrl = `https://${dataverseUrl}`
WithHttps(url) == IF url[1] = "https://" THEN url ELSE <<"https://">> \o url

\* new URL(dataverseUrl) does not throw.
ValidUrl(url) ==
    /\ Len(url) = 2
    /\ url[1] = "https://"
    /\ url[2] \in {"org.crm.dynamics.com"}

\* The part of writeCustomerToDataverse that runs before its first await,
\* under environment e: the errors it throws (none when the configuration is
\* usable, and the token is then requested through dynamicsWebApi.create).
writeCustomerToDataverse(e) ==
    IF ~e.tenantId \/ ~e.appId \/ ~e.clientSecret \/ e.dataverseUrl = <<>>
    THEN << MissingEnvironment >>
    ELSE IF ~ValidUrl(WithHttps(e.dataverseUrl))
    THEN << InvalidUrl >>
    ELSE << >>

----------------------------------------------------------------------------
\* initializeSubscription

\* request.json() of the creator: a body that is no JSON, the JSON null, or
\* an object with email and the optional name and amount.
CreatorBodies ==
    { [json |-> k, email |-> Undefined, name |-> Undefined, amount |-> Undefined]
        : k \in {"invalid", "null"} }
    \cup { [json |-> "object", email |-> Undefined, name |-> Str(<<"J">>), amount |-> Undefined],
           [json |-> "object", email |-> Str(<<>>), name |-> Undefined, amount |-> Str(<<"9">>)],
           [json |-> "object", email |-> Str(<<"b", "@", "y">>), name |-> Undefined, amount |-> Undefined],
           [json |-> "object", email |-> Str(<<"b", "@", "y">>), name |-> Str(<<"J">>), amount |-> Str(<<"9">>)],
           [json |-> "object", email |-> Str(<<"c">>), name |-> Str(<<>>), amount |-> Str(<<>>)] }

\* Variant: the test email === undefined, which lets the empty string pass.
EmailUndefined(email) == ~email.defined

\* if (!email)
EmailMissing(email) == ~TruthyStr(email)

\* Entry: the handler logs and awaits request.json().
CreatorEnter(i, body) ==
    /\ body \in CreatorBodies
    /\ Dispatch(i, "creator", body)

\* request.json() settles: the email is checked and POST /customers is called.
CreatorStart(i) ==
    /\ handler[i] = "creator" /\ pc[i] = "body"
    /\ LET body == request[i] IN
       IF body.json = "invalid" THEN
           /\ Catch(i, SyntaxError)
           /\ UNCHANGED calls
       ELSE IF body.json = "null" THEN
           /\ Catch(i, TypeError)
           /\ UNCHANGED calls
       ELSE IF EmailMissing(body.email) THEN
           /\ Return(i, BadRequest("Email address is required"))
           /\ UNCHANGED <<calls, caught>>
       ELSE
           /\ calls' = [calls EXCEPT ![i] =
                   Append(@, Call("post /customers",
                                  <<body.email.text,
                                    OrElse(body.name, SplitFirst(body.email.text, "@"))>>))]
           /\ pc' = [pc EXCEPT ![i] = "customers"]
           /\ UNCHANGED <<caught, resp>>
    /\ UNCHANGED <<env, provider, store, handler, request, locals>>

\* The first payment request: amount || "0.01", sequenceType "first".
FirstPayment(cid, amount) ==
    [customerId |-> cid, amount |-> OrElse(amount, <<"0", ".", "0", "1">>),
     sequenceType |-> "first"]

\* Variant: without the inner try/catch a failure of writeCustomerToDataverse
\* reaches the top-level catch.
DataverseErrorRethrown(i, log, cid, error) ==
    /\ calls' = [calls EXCEPT ![i] = log]
    /\ Catch(i, error)
    /\ UNCHANGED swallowed

\* catch (dataverseError): the failure of writeCustomerToDataverse is logged
\* and dropped, and POST /payments is called; log is the invocation's calls
\* so far, cid the new customer.
DataverseErrorSwallowed(i, log, cid, error) ==
    /\ swallowed' = [swallowed EXCEPT ![i] = Append(@, error)]
    /\ calls' = [calls EXCEPT ![i] =
            Append(log, Call("post /payments", <<FirstPayment(cid, request[i].amount)>>))]
    /\ pc' = [pc EXCEPT ![i] = "payments"]
    /\ UNCHANGED <<caught, resp>>

\* Variant: the record-store write and the first payment are started together
\* (Promise.all) instead of one after the other.
CreatorCustomersResolvedFanOut(i) ==
    /\ handler[i] = "creator" /\ pc[i] = "customers"
    /\ customers' = Append(customers, [email |-> calls[i][1].args[1],
                                       name |-> calls[i][1].args[2]])
    /\ customerId' = [customerId EXCEPT ![i] = Len(customers')]
    /\ calls' = [calls EXCEPT ![i] =
            Resolved(@) \o
            << Call("post /payments", <<FirstPayment(customerId'[i], request[i].amount)>>),
               Call("getToken", <<>>) >>]
    /\ pc' = [pc EXCEPT ![i] = "token"]
    /\ UNCHANGED <<env, payments, subscriptions, store, handler, request, payment,
                   recurringPaymentResponse, status, caught, swallowed, resp>>

\* POST /customers resolves: the provider stores the customer and answers
\* with its identifier; writeCustomerToDataverse is called.  With an unusable
\* configuration it throws before any await and POST /payments follows at
\* once; otherwise dynamicsWebApi.create asks acquireToken for a token.
CreatorCustomersResolved(i) ==
    /\ handler[i] = "creator" /\ pc[i] = "customers"
    /\ customers' = Append(customers, [email |-> calls[i][1].args[1],
                                       name |-> calls[i][1].args[2]])
    /\ customerId' = [customerId EXCEPT ![i] = Len(customers')]
    /\ IF writeCustomerToDataverse(env) # << >> THEN
           DataverseErrorSwallowed(i, Resolved(calls[i]), customerId'[i],
                                   writeCustomerToDataverse(env)[1])
       ELSE
           /\ calls' = [calls EXCEPT ![i] = Append(Resolved(@), Call("getToken", <<>>))]
           /\ pc' = [pc EXCEPT ![i] = "token"]
           /\ UNCHANGED <<caught, swallowed, resp>>
    /\ UNCHANGED <<env, payments, subscriptions, store, handler, request, payment,
                   recurringPaymentResponse, status>>

CreatorCustomersRejected(i, error) ==
    /\ handler[i] = "creator" /\ pc[i] = "customers"
    /\ calls' = [calls EXCEPT ![i] = Rejected(@, error)]
    /\ Catch(i, error)
    /\ UNCHANGED <<env, provider, store, handler, request, locals>>

\* credential.getToken resolves: the create request is sent to Dataverse.
CreatorTokenResolved(i) ==
    /\ handler[i] = "creator" /\ pc[i] = "token"
    /\ calls' = [calls EXCEPT ![i] =
            Append(Resolved(@),
                   Call("dynamicsWebApi.create",
                        <<[mollie_customer_id |-> customerId[i],
                           emailaddress1 |-> request[i].email.text]>>))]
    /\ pc' = [pc EXCEPT ![i] = "dataverse"]
    /\ UNCHANGED <<env, provider, store, handler, request, locals, caught, resp>>

\* credential.getToken rejects: acquireToken rethrows, the create fails with
\* that error and the inner catch of the handler drops it.
CreatorTokenRejected(i) ==
    /\ handler[i] = "creator" /\ pc[i] = "token"
    /\ DataverseErrorSwallowed(i, Rejected(calls[i], TokenFailure), customerId[i], TokenFailure)
    /\ UNCHANGED <<env, provider, store, handler, request, customerId, payment,
                   recurringPaymentResponse, status>>

\* dynamicsWebApi.create resolves: the row exists and POST /payments is called.
CreatorDataverseResolved(i) ==
    /\ handler[i] = "creator" /\ pc[i] = "dataverse"
    /\ contacts' = Append(contacts, calls[i][Len(calls[i])].args[1])
    /\ calls' = [calls EXCEPT ![i] =
            Append(Resolved(@),
                   Call("post /payments", <<FirstPayment(customerId[i], request[i].amount)>>))]
    /\ pc' = [pc EXCEPT ![i] = "payments"]
    /\ UNCHANGED <<env, provider, subscriptionFlag, handler, request, locals, caught, resp>>

\* dynamicsWebApi.create rejects: the error is rethrown by
\* writeCustomerToDataverse and dropped by the inner catch of the handler.
CreatorDataverseRejected(i) ==
    /\ handler[i] = "creator" /\ pc[i] = "dataverse"
    /\ DataverseErrorSwallowed(i, Rejected(calls[i], CreateFailure), customerId[i], CreateFailure)
    /\ UNCHANGED <<env, provider, store, handler, request, customerId, payment,
                   recurringPaymentResponse, status>>

\* The response of a created first payment.
CheckoutResponse(cid, pid) ==
    [status |-> 200,
     jsonBody |-> [success |-> TRUE, customerId |-> cid, paymentId |-> pid,
                   checkoutUrl |-> <<"https://www.mollie.com/checkout/", pid>>]]

CreatorPaymentsResolved(i) ==
    /\ handler[i] = "creator" /\ pc[i] = "payments"
    /\ payments' = Append(payments, calls[i][Len(calls[i])].args[1])
    /\ calls' = [calls EXCEPT ![i] = Resolved(@)]
    /\ Return(i, CheckoutResponse(customerId[i], Len(payments')))
    /\ UNCHANGED <<env, customers, subscriptions, store, handler, request, locals, caught>>

CreatorPaymentsRejected(i, error) ==
    /\ handler[i] = "creator" /\ pc[i] = "payments"
    /\ calls' = [calls EXCEPT ![i] = Rejected(@, error)]
    /\ Catch(i, error)
    /\ UNCHANGED <<env, provider, store, handler, request, locals>>

----------------------------------------------------------------------------
\* The system: requests arrive, and pending calls resolve or reject

\* One step of invocation i.
Step(i) ==
    \/ \E body \in LegacyBodies : LegacyEnter(i, body)
    \/ LegacyStart(i)
    \/ \E st \in SubscriptionStatuses : LegacyCreateResolved(i, st)
    \/ \E error \in Errors : LegacyCreateRejected(i, error)
    \/ LegacyUpdateResolved(i)
    \/ \E error \in Errors : LegacyUpdateRejected(i, error)
    \/ \E body \in FormBodies : FormEnter(i, body)
    \/ FormStart(i)
    \/ \E st \in PaymentStatuses : FormGetResolved(i, st)
    \/ \E error \in Errors : FormGetRejected(i, error)
    \/ \E st \in SubscriptionStatuses : FormCreateResolved(i, st)
    \/ \E error \in Errors : FormCreateRejected(i, error)
    \/ FormUpdateResolved(i)
    \/ \E error \in Errors : FormUpdateRejected(i, error)
    \/ \E body \in CreatorBodies : CreatorEnter(i, body)
    \/ CreatorStart(i)
    \/ CreatorCustomersResolved(i)
    \/ \E error \in Errors : CreatorCustomersRejected(i, error)
    \/ CreatorTokenResolved(i)
    \/ CreatorTokenRejected(i)
    \/ CreatorDataverseResolved(i)
    \/ CreatorDataverseRejected(i)
    \/ CreatorPaymentsResolved(i)
    \/ \E error \in Errors : CreatorPaymentsRejected(i, error)

Next == \E i \in Inv : Step(i)

Spec == Init /\ [][Next]_vars

----------------------------------------------------------------------------
\* Vocabulary of the properties

Done(i) == pc[i] = "done"

\* The positions of the calls of one operation in an invocation's log.
CallsOf(i, name) == { k \in 1..Len(calls[i]) : calls[i][k].call = name }

\* The names of the calls of an invocation, in order.
CallNames(i) == [k \in 1..Len(calls[i]) |-> calls[i][k].call]

IsPrefix(s, t) == Len(s) <= Len(t) /\ \A k \in 1..Len(s) : s[k] = t[k]

\* The response's body is a jsonBody holding success with value b.
Reports(r, b) ==
    /\ "jsonBody" \in DOMAIN r
    /\ "success" \in DOMAIN r.jsonBody
    /\ r.jsonBody.success = b

Webhook(i) == handler[i] \in {"legacy", "form"}

----------------------------------------------------------------------------
\* C1 as stated: in the form-encoded webhook handler, an invocation whose
\* payment is "paid" calls customerSubscriptions.create exactly once, and its
\* response carries success:true only if the created subscription's status
\* is exactly "active".
C1_AsStated ==
    \A i \in Inv :
        (handler[i] = "form" /\ payment[i] = "paid" /\ Done(i)) =>
            /\ Cardinality(CallsOf(i, "customerSubscriptions.create")) = 1
            /\ Reports(resp[i][1], TRUE) => recurringPaymentResponse[i] = "active"

\* C1 as amended: in the form-encoded webhook handler, an invocation whose
\* payment is "paid" calls customerSubscriptions.create exactly once; its
\* response carries success:true exactly when that call and the record-store
\* write after it both succeeded, whatever the status of the created
\* subscription, which only decides the activation flag that was written
\* (true only if the status is exactly "active").
C1_CreateOnceSuccessWhenWritten ==
    \A i \in Inv :
        (handler[i] = "form" /\ payment[i] = "paid") =>
            /\ Cardinality(CallsOf(i, "customerSubscriptions.create")) = 1
            /\ Done(i) =>
                 /\ Len(resp[i]) = 1
                 /\ Reports(resp[i][1], TRUE) <=>
                        /\ Len(calls[i]) = 3
                        /\ calls[i][2].result = "ok"
                        /\ calls[i][3].call = "updateDataverseSubscription"
                        /\ calls[i][3].result = "ok"
                 /\ Reports(resp[i][1], TRUE) =>
                        (calls[i][3].args[2] = TRUE => recurringPaymentResponse[i] = "active")

\* C1 witness: a paid payment whose subscription came back "pending" and was
\* written: the handler answered success:true.
C1_Witness ==
    \E i \in Inv :
        /\ handler[i] = "form" /\ payment[i] = "paid" /\ Done(i)
        /\ recurringPaymentResponse[i] = "pending"
        /\ Reports(resp[i][1], TRUE)

\* C2: in the form-encoded webhook handler, an invocation whose looked-up
\* payment has a status other than "paid" answers HTTP 200 with
\* {received:true}, and calls neither subscription creation nor the record
\* store.
C2_NotPaidOnlyAcknowledged ==
    \A i \in Inv :
        (handler[i] = "form" /\ payment[i] \notin {"", "paid"}) =>
            /\ resp[i] = << [status |-> 200, jsonBody |-> [received |-> TRUE]] >>
            /\ Done(i)
            /\ CallNames(i) = << "payments.get" >>
            /\ CallsOf(i, "customerSubscriptions.create") = {}
            /\ CallsOf(i, "updateDataverseSubscription") = {}

\* C2 witness: the webhook of an open payment has been answered.
C2_Witness ==
    \E i \in Inv : handler[i] = "form" /\ payment[i] = "open" /\ Done(i)

\* C3: in both webhook variants, when updateDataverseSubscription fails
\* after the subscription was created, the handler answers success:false
\* with a status other than 200 taken from the failure (its HTTP status, or
\* 500 without one), and never success:true.
C3_UpdateFailurePropagated ==
    \A i \in Inv : \A k \in CallsOf(i, "updateDataverseSubscription") :
        (Webhook(i) /\ calls[i][k].result = "failed") =>
            /\ calls[i][k - 1].call = "customerSubscriptions.create"
            /\ calls[i][k - 1].result = "ok"
            /\ Done(i)
            /\ Len(resp[i]) = 1
            /\ Reports(resp[i][1], FALSE)
            /\ resp[i][1].status # 200
            /\ resp[i][1].status =
                 (IF calls[i][k].error.status # 0 THEN calls[i][k].error.status ELSE 500)

\* C3 witness: a webhook invocation whose record-store write was rejected
\* with HTTP 503.
C3_Witness ==
    \E i \in Inv : \E k \in CallsOf(i, "updateDataverseSubscription") :
        /\ Webhook(i) /\ Done(i)
        /\ calls[i][k].result = "failed"
        /\ calls[i][k].error.status = 503

\* C4: in initializeSubscription, when the customer was created and
\* writeCustomerToDataverse fails (missing configuration, invalid URL, token
\* or create failure), the first payment is still requested; when that
\* request succeeds the response is HTTP 200 with success:true and the
\* checkout URL of the payment, as without the failure.
C4_DataverseFailureSwallowed ==
    \A i \in Inv :
        ( /\ handler[i] = "creator"
          /\ calls[i] # <<>>
          /\ calls[i][1].result = "ok"
          /\ \/ writeCustomerToDataverse(env) # <<>>
             \/ \E k \in CallsOf(i, "getToken") \cup CallsOf(i, "dynamicsWebApi.create") :
                    calls[i][k].result = "failed" ) =>
            /\ Len(swallowed[i]) = 1
            /\ calls[i][1].call = "post /customers"
            /\ calls[i][1].result = "ok"
            /\ customerId[i] \in 1..Len(customers)
            /\ \A k \in CallsOf(i, "dynamicsWebApi.create") : calls[i][k].result = "failed"
            /\ contacts = <<>> \/ \A n \in 1..Len(contacts) :
                                     contacts[n].mollie_customer_id # customerId[i]
            /\ calls[i][Len(calls[i])].call = "post /payments"
            /\ calls[i][Len(calls[i])].args[1].customerId = customerId[i]
            /\ caught[i] = <<>> \/ calls[i][Len(calls[i])].result = "failed"
            /\ calls[i][Len(calls[i])].result = "ok" =>
                 /\ Len(resp[i]) = 1
                 /\ resp[i][1].status = 200
                 /\ Reports(resp[i][1], TRUE)
                 /\ resp[i][1].jsonBody.customerId = customerId[i]
                 /\ resp[i][1].jsonBody.paymentId \in 1..Len(payments)
                 /\ payments[resp[i][1].jsonBody.paymentId].customerId = customerId[i]
                 /\ resp[i][1].jsonBody.checkoutUrl =
                        << "https://www.mollie.com/checkout/", resp[i][1].jsonBody.paymentId >>

\* C4 witness: the token request of the record-store write failed and the
\* handler answered 200 with a checkout URL.
C4_Witness ==
    \E i \in Inv :
        /\ handler[i] = "creator" /\ Done(i)
        /\ swallowed[i] = << TokenFailure >>
        /\ resp[i][1].status = 200
        /\ "checkoutUrl" \in DOMAIN resp[i][1].jsonBody

\* C5: in the legacy JSON webhook handler, a body whose success field is
\* false, falsy or absent is answered with HTTP 400 and no external call is
\* made: no subscription creation and no record-store write.
C5_UnsuccessfulRejectedWithoutCalls ==
    \A i \in Inv :
        (/\ handler[i] = "legacy"
         /\ request[i].json = "object"
         /\ request[i].success \in {"undefined", "false", "0"}) =>
            /\ calls[i] = <<>>
            /\ pc[i] \in {"body", "done"}
            /\ Done(i) => (Len(resp[i]) = 1 /\ resp[i][1].status = 400)

\* C5 witness: a legacy webhook with success:false has been answered.
C5_Witness ==
    \E i \in Inv :
        /\ handler[i] = "legacy" /\ request[i].json = "object"
        /\ request[i].success = "false"
        /\ Done(i)

\* C6: in initializeSubscription, a body with a missing or empty email is
\* answered with HTTP 400 and no call is made to the payment provider or to
\* the record store.
C6_MissingEmailRejectedWithoutCalls ==
    \A i \in Inv :
        (/\ handler[i] = "creator"
         /\ request[i].json = "object"
         /\ (~request[i].email.defined \/ request[i].email.text = <<>>)) =>
            /\ calls[i] = <<>>
            /\ pc[i] \in {"body", "done"}
            /\ Done(i) => (Len(resp[i]) = 1 /\ resp[i][1].status = 400)

\* C6 witness: a creation request with the empty email has been answered.
C6_Witness ==
    \E i \in Inv :
        /\ handler[i] = "creator" /\ request[i].json = "object"
        /\ request[i].email = Str(<<>>)
        /\ Done(i)

\* C7: in every handler, an exception raised by body parsing or by a failing
\* call (the record-store write of initializeSubscription excepted) reaches
\* the top-level catch; the invocation ends with exactly one response, whose
\* status is the failure's HTTP status when it has one and 500 otherwise and
\* whose body has success:false with an error message; an invocation that
\* has started and not ended can always take a step.
C7_ExceptionsAnswered ==
    \A i \in Inv :
        /\ Len(resp[i]) <= 1
        /\ Done(i) <=> Len(resp[i]) = 1
        /\ pc[i] \notin {"idle", "done"} => ENABLED Step(i)
        /\ Len(caught[i]) <= 1
        /\ (handler[i] \in {"legacy", "creator"} /\ request[i].json # "object")
              => (pc[i] = "body" \/ Len(caught[i]) = 1)
        /\ (handler[i] = "form" /\ request[i].text # "read")
              => (pc[i] = "body" \/ Len(caught[i]) = 1)
        /\ \A k \in 1..Len(calls[i]) :
              (/\ calls[i][k].result = "failed"
               /\ calls[i][k].call \notin {"getToken", "dynamicsWebApi.create"})
                  => caught[i] = << calls[i][k].error >>
        /\ caught[i] # <<>> =>
              /\ Done(i)
              /\ resp[i][1].status =
                    (IF caught[i][1].status # 0 THEN caught[i][1].status ELSE 500)
              /\ Reports(resp[i][1], FALSE)
              /\ resp[i][1].jsonBody.error # ""

\* C7 witness: a call failed with HTTP 404 and the invocation was answered.
C7_Witness ==
    \E i \in Inv :
        /\ Done(i)
        /\ caught[i] # <<>>
        /\ caught[i][1].status = 404

\* The subscriptions of customer c, by position in creation order.
SubscriptionsOf(c) == { k \in 1..Len(subscriptions) : subscriptions[k].customerId = c }

\* The latest subscription created for customer c.
LatestSubscription(c) ==
    subscriptions[CHOOSE k \in SubscriptionsOf(c) : \A j \in SubscriptionsOf(c) : j <= k]

\* C8: once every webhook invocation has ended, however they interleaved or
\* failed, the activation flag of a customer in the record store is true
\* exactly when the latest subscription created for that customer is
\* "active".
C8_FlagReflectsLatestSubscription ==
    (\A i \in Inv : pc[i] \in {"idle", "done"}) =>
        \A c \in CustomerIds :
            SubscriptionsOf(c) # {} =>
                (subscriptionFlag[c] = "true" <=> LatestSubscription(c).status = "active")

\* C9: in both webhook variants updateDataverseSubscription is called at most
\* once per invocation, after the only subscription creation of that
\* invocation, with the flag that is true exactly when the created
\* subscription's status is "active" and with the customer identifier the
\* subscription was created for (payment.customerId of the looked-up payment
\* in the form-encoded variant, the body's customerId in the legacy one).
C9_FlagIffActiveForSameCustomer ==
    \A i \in Inv :
        Webhook(i) =>
            /\ Cardinality(CallsOf(i, "updateDataverseSubscription")) <= 1
            /\ Cardinality(CallsOf(i, "customerSubscriptions.create")) <= 1
            /\ \A k \in CallsOf(i, "updateDataverseSubscription") :
                  /\ calls[i][k - 1].call = "customerSubscriptions.create"
                  /\ calls[i][k].args[2] = (recurringPaymentResponse[i] = "active")
                  /\ calls[i][k].args[1] = calls[i][k - 1].args[1]
                  /\ \E n \in SubscriptionsOf(calls[i][k].args[1]) :
                        subscriptions[n].status = recurringPaymentResponse[i]
                  /\ handler[i] = "form" =>
                        calls[i][k].args[1] = payments[calls[i][1].args[1]].customerId
                  /\ handler[i] = "legacy" =>
                        calls[i][k].args[1] = request[i].customerId
                  /\ calls[i][k].result = "ok" =>
                        subscriptionFlag[calls[i][k].args[1]] \in {"true", "false"}

\* C9 witness: a legacy webhook whose subscription came back "active" wrote
\* the flag true.
C9_Witness ==
    \E i \in Inv : \E k \in CallsOf(i, "updateDataverseSubscription") :
        /\ handler[i] = "legacy" /\ Done(i)
        /\ recurringPaymentResponse[i] = "active"
        /\ calls[i][k].args[2] = TRUE
        /\ calls[i][k].result = "ok"

\* C10: within one invocation the external calls are issued one at a time
\* and in a fixed order, each after the previous one has completed: in the
\* form-encoded webhook payments.get, then customerSubscriptions.create (only
\* after a lookup that returned "paid"), then updateDataverseSubscription
\* (only after a successful creation); in initializeSubscription POST
\* /customers, then the calls of writeCustomerToDataverse (the token request,
\* then the create), then POST /payments, all of them only after a
\* successful customer creation.
C10_CallsSequentialInOrder ==
    \A i \in Inv :
        /\ \A k \in 1..(Len(calls[i]) - 1) : calls[i][k].result # "pending"
        /\ handler[i] = "form" =>
              /\ IsPrefix(CallNames(i), << "payments.get", "customerSubscriptions.create",
                                           "updateDataverseSubscription" >>)
              /\ \A k \in 1..(Len(calls[i]) - 1) : calls[i][k].result = "ok"
              /\ Len(calls[i]) >= 2 => payment[i] = "paid"
        /\ handler[i] = "creator" =>
              /\ \/ IsPrefix(CallNames(i), << "post /customers", "getToken",
                                              "dynamicsWebApi.create", "post /payments" >>)
                 \/ CallNames(i) = << "post /customers", "getToken", "post /payments" >>
                 \/ CallNames(i) = << "post /customers", "post /payments" >>
              /\ Len(calls[i]) >= 2 => calls[i][1].result = "ok"
              /\ \A k \in CallsOf(i, "dynamicsWebApi.create") : calls[i][k - 1].result = "ok"
              /\ \A k \in CallsOf(i, "post /payments") :
                    calls[i][k - 1].call = "post /customers" => swallowed[i] # <<>>

\* C10 witness: a form-encoded webhook that went through all three calls.
C10_Witness ==
    \E i \in Inv :
        /\ handler[i] = "form" /\ Done(i)
        /\ Len(calls[i]) = 3
        /\ calls[i][3].result = "ok"

====
